---- MODULE Spec2Model ----
(***************************************************************************)
(* Model of the Maelstrom-style node of src/main.rs: a single-threaded     *)
(* loop that reads one JSON message per line from stdin, initializes a     *)
(* Node from the first line (Node::from_init) and passes every later line  *)
(* to Node::process, printing one reply per line.                          *)
(***************************************************************************)
EXTENDS Integers, Sequences, FiniteSets, TLC

\* ------------------------------------------------------------------ bounds
\* Number of input lines the loop reads before the model stops reading.
MaxLines == 4
\* Width of usize in the model (64 on the real target); arithmetic on the
\* counter wraps modulo 2^USIZE_BITS exactly as AtomicUsize::fetch_add does.
USIZE_BITS == 2
\* Largest delta carried by an Add message in the model.
MaxDelta == 2
\* Largest value carried by a Broadcast message in the model.
MaxBroadcast == 1

UsizeModulus == 2 ^ USIZE_BITS
\* The usize values 0..hi (a value outside usize does not decode).
UsizeUpTo(hi) == {x \in 0..hi : x < UsizeModulus}

\* ------------------------------------------------------------- data model
\* Option<usize>: None is the empty tuple, Some(x) the one-element tuple.
None == <<>>
Some(x) == <<x>>

\* Strings that appear as src of input messages and as node names.
Clients == {"c1", "c2"}
NodeNames == {"n0", "n1"}
\* Vec<String> values carried by Init.node_ids (one with a duplicate).
NodeIdLists == {<<"n0", "n1">>, <<"n1", "n1">>}
EchoStrings == {"", "hi"}
\* HashMap<String, Vec<String>> as a set of <<key, neighbours>> pairs.
Topologies == {{}, {<<"n0", <<"n1">>>>, <<"n1", <<"n0">>>>}}
\* Values Uuid::new_v4() may return.
Uuids == {"u1", "u2", "u3"}
\* Option<usize> values carried by Body.id of an input message.
MsgIds == {None, Some(1)}

\* enum Payload
RequestPayloads ==
    {[type |-> "init", node_id |-> n, node_ids |-> l] :
        n \in NodeNames, l \in NodeIdLists}
    \cup {[type |-> "echo", echo |-> s] : s \in EchoStrings}
    \cup {[type |-> "generate"]}
    \cup {[type |-> "broadcast", message |-> v] : v \in UsizeUpTo(MaxBroadcast)}
    \cup {[type |-> "read"]}
    \cup {[type |-> "topology", topology |-> t] : t \in Topologies}
    \cup {[type |-> "add", delta |-> d] : d \in UsizeUpTo(MaxDelta)}

ReplyPayloads ==
    {[type |-> "echo_ok", echo |-> "hi"],
     [type |-> "init_ok"],
     [type |-> "generate_ok", id |-> "u1"],
     [type |-> "broadcast_ok"],
     [type |-> "topology_ok"],
     [type |-> "read_ok", value |-> 0],
     [type |-> "add_ok"],
     [type |-> "error", code |-> 1001, text |-> "x"]}

Payload == RequestPayloads \cup ReplyPayloads

\* struct Body
Body == [id : MsgIds, in_reply_to : {None}, payload : Payload]

\* struct Message: the lines that decode successfully
Message == [src : Clients, dst : NodeNames, body : Body]

\* Placeholder for "no line read / printed yet".
NoLine == [src |-> "", dst |-> "", body |-> [id |-> None, in_reply_to |-> None, payload |-> [type |-> "none"]]]

VARIABLES
    node,       \* the Node struct owned by main
    i,          \* index of the next line to read (enumerate())
    line,       \* the last line decoded from stdin
    out,        \* the last line printed to stdout
    nout,       \* number of lines printed to stdout
    status,     \* "running", "exited" (Ok(())), "error" (Err), "panicked"
    sum_deltas, \* history: mathematical sum of the deltas of accepted Adds
    broadcasted \* history: values of accepted Broadcasts, in input order

vars == <<node, i, line, out, nout, status, sum_deltas, broadcasted>>


\* ------------------------------------------------------------------- Node
\* Vec<String>::into_iter().collect::<HashSet<String>>()
collect(v) == {v[k] : k \in DOMAIN v}

\* AtomicUsize::fetch_add: wrapping addition on usize; the new counter value.
fetch_add(counter, delta) == (counter + delta) % UsizeModulus

\* Variant of from_init that falls back to a default node when the message
\* is not an Init.
from_init_lenient(msg) ==
    [tag |-> "Ok",
     resp |-> [src |-> msg.dst,
               dst |-> msg.src,
               body |-> [id |-> None,
                         in_reply_to |-> msg.body.id,
                         payload |-> [type |-> "init_ok"]]],
     node |-> IF msg.body.payload.type = "init"
              THEN [id |-> msg.body.payload.node_id,
                    node_ids |-> collect(msg.body.payload.node_ids),
                    messages |-> {},
                    g_counter |-> 0]
              ELSE [id |-> msg.dst,
                    node_ids |-> {},
                    messages |-> {},
                    g_counter |-> 0]]

\* Variant of from_init that takes the node's id from the envelope's dest.
from_init_id_from_dst(msg) ==
    IF msg.body.payload.type = "init"
    THEN [tag |-> "Ok",
          resp |-> [src |-> msg.dst,
                    dst |-> msg.src,
                    body |-> [id |-> None,
                              in_reply_to |-> msg.body.id,
                              payload |-> [type |-> "init_ok"]]],
          node |-> [id |-> msg.dst,
                    node_ids |-> collect(msg.body.payload.node_ids),
                    messages |-> {},
                    g_counter |-> 0]]
    ELSE [tag |-> "Err"]

\* Node::from_init
from_init(msg) ==
    IF msg.body.payload.type = "init"
    THEN [tag |-> "Ok",
          resp |-> [src |-> msg.dst,
                    dst |-> msg.src,
                    body |-> [id |-> None,
                              in_reply_to |-> msg.body.id,
                              payload |-> [type |-> "init_ok"]]],
          node |-> [id |-> msg.body.payload.node_id,
                    node_ids |-> collect(msg.body.payload.node_ids),
                    messages |-> {},
                    g_counter |-> 0]]
    ELSE [tag |-> "Err"]

\* Node::generate_uuid: the values a call may return
generate_uuid == Uuids

\* The payload tag of a message.
TypeOf(msg) == msg.body.payload.type

\* What generate_uuid yields while process handles msg: it is called in the
\* Generate arm only, and only once the destination check has passed.
NoUuid == ""
UuidDraws(self, msg) ==
    IF msg.dst = self.id /\ TypeOf(msg) = "generate"
    THEN generate_uuid
    ELSE {NoUuid}

\* Variant of DestMismatch that answers from the envelope's dest.
DestMismatch_src_from_dst(self, msg) ==
    [tag |-> "Ok",
     resp |-> [src |-> msg.dst,
               dst |-> msg.src,
               body |-> [id |-> None,
                         in_reply_to |-> msg.body.id,
                         payload |-> [type |-> "error",
                                      code |-> 1001,
                                      text |-> "Destination does not match this node_id"]]],
     node |-> self]

\* Node::process, the early return on msg.dst != self.id
DestMismatch(self, msg) ==
    [tag |-> "Ok",
     resp |-> [src |-> self.id,
               dst |-> msg.src,
               body |-> [id |-> None,
                         in_reply_to |-> msg.body.id,
                         payload |-> [type |-> "error",
                                      code |-> 1001,
                                      text |-> "Destination does not match this node_id"]]],
     node |-> self]

\* Variant of ProcessInit that carries the text of the destination check.
ProcessInit_copied_text(self, msg) ==
    [tag |-> "Ok",
     resp |-> [src |-> self.id,
               dst |-> msg.src,
               body |-> [id |-> None,
                         in_reply_to |-> msg.body.id,
                         payload |-> [type |-> "error",
                                      code |-> 1002,
                                      text |-> "Destination does not match this node_id"]]],
     node |-> self]

\* Variant of ProcessInit that re-initializes the node from the message.
ProcessInit_reinit(self, msg) ==
    [tag |-> "Ok",
     resp |-> [src |-> self.id,
               dst |-> msg.src,
               body |-> [id |-> None,
                         in_reply_to |-> msg.body.id,
                         payload |-> [type |-> "error",
                                      code |-> 1002,
                                      text |-> "Node already initialized"]]],
     node |-> from_init(msg).node]

\* Node::process, arm Payload::Init
ProcessInit(self, msg) ==
    [tag |-> "Ok",
     resp |-> [src |-> self.id,
               dst |-> msg.src,
               body |-> [id |-> None,
                         in_reply_to |-> msg.body.id,
                         payload |-> [type |-> "error",
                                      code |-> 1002,
                                      text |-> "Node already initialized"]]],
     node |-> self]

\* Variant of ProcessEcho whose reply carries no msg_id.
ProcessEcho_no_msg_id(self, msg) ==
    [tag |-> "Ok",
     resp |-> [src |-> self.id,
               dst |-> msg.src,
               body |-> [id |-> None,
                         in_reply_to |-> msg.body.id,
                         payload |-> [type |-> "echo_ok",
                                      echo |-> msg.body.payload.echo]]],
     node |-> self]

\* Node::process, arm Payload::Echo
ProcessEcho(self, msg) ==
    [tag |-> "Ok",
     resp |-> [src |-> self.id,
               dst |-> msg.src,
               body |-> [id |-> msg.body.id,
                         in_reply_to |-> msg.body.id,
                         payload |-> [type |-> "echo_ok",
                                      echo |-> msg.body.payload.echo]]],
     node |-> self]

\* Variant of ProcessGenerate that numbers the ids with the counter.
ProcessGenerate_counts(self, msg, uuid) ==
    [tag |-> "Ok",
     resp |-> [src |-> self.id,
               dst |-> msg.src,
               body |-> [id |-> msg.body.id,
                         in_reply_to |-> msg.body.id,
                         payload |-> [type |-> "generate_ok", id |-> uuid]]],
     node |-> [self EXCEPT !.g_counter = fetch_add(@, 1)]]

\* Node::process, arm Payload::Generate
ProcessGenerate(self, msg, uuid) ==
    [tag |-> "Ok",
     resp |-> [src |-> self.id,
               dst |-> msg.src,
               body |-> [id |-> msg.body.id,
                         in_reply_to |-> msg.body.id,
                         payload |-> [type |-> "generate_ok", id |-> uuid]]],
     node |-> self]

\* Variant of ProcessBroadcast that replaces the set instead of inserting.
ProcessBroadcast_replace(self, msg) ==
    [tag |-> "Ok",
     resp |-> [src |-> self.id,
               dst |-> msg.src,
               body |-> [id |-> msg.body.id,
                         in_reply_to |-> msg.body.id,
                         payload |-> [type |-> "broadcast_ok"]]],
     node |-> [self EXCEPT !.messages = {msg.body.payload.message}]]

\* Node::process, arm Payload::Broadcast
ProcessBroadcast(self, msg) ==
    [tag |-> "Ok",
     resp |-> [src |-> self.id,
               dst |-> msg.src,
               body |-> [id |-> msg.body.id,
                         in_reply_to |-> msg.body.id,
                         payload |-> [type |-> "broadcast_ok"]]],
     node |-> [self EXCEPT !.messages = @ \cup {msg.body.payload.message}]]

\* Variant of ProcessRead that takes the counter (swap with 0) when reading.
ProcessRead_swap(self, msg) ==
    [tag |-> "Ok",
     resp |-> [src |-> self.id,
               dst |-> msg.src,
               body |-> [id |-> msg.body.id,
                         in_reply_to |-> msg.body.id,
                         payload |-> [type |-> "read_ok",
                                      value |-> self.g_counter]]],
     node |-> [self EXCEPT !.g_counter = 0]]

\* Node::process, arm Payload::Read
ProcessRead(self, msg) ==
    [tag |-> "Ok",
     resp |-> [src |-> self.id,
               dst |-> msg.src,
               body |-> [id |-> msg.body.id,
                         in_reply_to |-> msg.body.id,
                         payload |-> [type |-> "read_ok",
                                      value |-> self.g_counter]]],
     node |-> self]

\* Variant of ProcessTopology that takes the peer set from the mapping's keys.
ProcessTopology_store(self, msg) ==
    [tag |-> "Ok",
     resp |-> [src |-> self.id,
               dst |-> msg.src,
               body |-> [id |-> msg.body.id,
                         in_reply_to |-> msg.body.id,
                         payload |-> [type |-> "topology_ok"]]],
     node |-> [self EXCEPT !.node_ids = {e[1] : e \in msg.body.payload.topology}]]

\* Node::process, arm Payload::Topology
ProcessTopology(self, msg) ==
    [tag |-> "Ok",
     resp |-> [src |-> self.id,
               dst |-> msg.src,
               body |-> [id |-> msg.body.id,
                         in_reply_to |-> msg.body.id,
                         payload |-> [type |-> "topology_ok"]]],
     node |-> self]

\* Variant of ProcessAdd whose reply does not name the request.
ProcessAdd_no_in_reply_to(self, msg) ==
    [tag |-> "Ok",
     resp |-> [src |-> self.id,
               dst |-> msg.src,
               body |-> [id |-> msg.body.id,
                         in_reply_to |-> None,
                         payload |-> [type |-> "add_ok"]]],
     node |-> [self EXCEPT !.g_counter = fetch_add(@, msg.body.payload.delta)]]

\* Node::process, arm Payload::Add
ProcessAdd(self, msg) ==
    [tag |-> "Ok",
     resp |-> [src |-> self.id,
               dst |-> msg.src,
               body |-> [id |-> msg.body.id,
                         in_reply_to |-> msg.body.id,
                         payload |-> [type |-> "add_ok"]]],
     node |-> [self EXCEPT !.g_counter = fetch_add(@, msg.body.payload.delta)]]

\* Variant of process that matches on the payload before it checks the
\* destination of the requests it has no Init or catch-all arm for.
process_match_first(self, msg, uuid) ==
    CASE msg.body.payload.type = "init" -> ProcessInit(self, msg)
      [] msg.body.payload.type \in {"echo", "generate", "broadcast", "read",
                                    "topology", "add"} /\ msg.dst # self.id ->
            DestMismatch(self, msg)
      [] msg.body.payload.type = "echo" -> ProcessEcho(self, msg)
      [] msg.body.payload.type = "generate" -> ProcessGenerate(self, msg, uuid)
      [] msg.body.payload.type = "broadcast" -> ProcessBroadcast(self, msg)
      [] msg.body.payload.type = "read" -> ProcessRead(self, msg)
      [] msg.body.payload.type = "topology" -> ProcessTopology(self, msg)
      [] msg.body.payload.type = "add" -> ProcessAdd(self, msg)
      [] OTHER -> [tag |-> "Panic"]

\* Variant of process whose catch-all arm answers with an Error reply.
process_other_replies(self, msg, uuid) ==
    IF msg.dst # self.id THEN DestMismatch(self, msg)
    ELSE CASE msg.body.payload.type = "init" -> ProcessInit(self, msg)
           [] msg.body.payload.type = "echo" -> ProcessEcho(self, msg)
           [] msg.body.payload.type = "generate" -> ProcessGenerate(self, msg, uuid)
           [] msg.body.payload.type = "broadcast" -> ProcessBroadcast(self, msg)
           [] msg.body.payload.type = "read" -> ProcessRead(self, msg)
           [] msg.body.payload.type = "topology" -> ProcessTopology(self, msg)
           [] msg.body.payload.type = "add" -> ProcessAdd(self, msg)
           [] OTHER -> [tag |-> "Ok",
                        resp |-> [src |-> self.id,
                                  dst |-> msg.src,
                                  body |-> [id |-> None,
                                            in_reply_to |-> msg.body.id,
                                            payload |-> [type |-> "error",
                                                         code |-> 1003,
                                                         text |-> "Unrecognized msg type"]]],
                        node |-> self]

\* Variant of process without the destination check.
process_no_dest_check(self, msg, uuid) ==
    CASE msg.body.payload.type = "init" -> ProcessInit(self, msg)
      [] msg.body.payload.type = "echo" -> ProcessEcho(self, msg)
      [] msg.body.payload.type = "generate" -> ProcessGenerate(self, msg, uuid)
      [] msg.body.payload.type = "broadcast" -> ProcessBroadcast(self, msg)
      [] msg.body.payload.type = "read" -> ProcessRead(self, msg)
      [] msg.body.payload.type = "topology" -> ProcessTopology(self, msg)
      [] msg.body.payload.type = "add" -> ProcessAdd(self, msg)
      [] OTHER -> [tag |-> "Panic"]

\* Node::process: the destination check, then the match on the payload;
\* uuid is the value generate_uuid returns if it is called.
process(self, msg, uuid) ==
    IF msg.dst # self.id THEN DestMismatch(self, msg)
    ELSE CASE msg.body.payload.type = "init" -> ProcessInit(self, msg)
           [] msg.body.payload.type = "echo" -> ProcessEcho(self, msg)
           [] msg.body.payload.type = "generate" -> ProcessGenerate(self, msg, uuid)
           [] msg.body.payload.type = "broadcast" -> ProcessBroadcast(self, msg)
           [] msg.body.payload.type = "read" -> ProcessRead(self, msg)
           [] msg.body.payload.type = "topology" -> ProcessTopology(self, msg)
           [] msg.body.payload.type = "add" -> ProcessAdd(self, msg)
           [] OTHER -> [tag |-> "Panic"]

\* ------------------------------------------------------------------- main
\* The node main builds before the loop.
InitialNode == [id |-> "n0", node_ids |-> {}, messages |-> {}, g_counter |-> 0]

Init ==
    /\ node = InitialNode
    /\ i = 0
    /\ line = NoLine
    /\ out = NoLine
    /\ nout = 0
    /\ status = "running"
    /\ sum_deltas = 0
    /\ broadcasted = <<>>

\* History of the accepted requests, computed from the input line alone.
Accepted(self, msg, type) == msg.dst = self.id /\ msg.body.payload.type = type

\* println! of a reply
Println(resp) ==
    /\ out' = resp
    /\ nout' = nout + 1

\* First line, decoded, handled by Node::from_init which returns Ok.
MainInit ==
    /\ status = "running"
    /\ i = 0
    /\ i < MaxLines
    /\ \E msg \in Message :
         LET r == from_init(msg) IN
         /\ r.tag = "Ok"
         /\ line' = msg
         /\ node' = r.node
         /\ Println(r.resp)
    /\ i' = i + 1
    /\ UNCHANGED <<status, sum_deltas, broadcasted>>

\* First line, decoded, is not an Init: from_init returns Err and main
\* returns it through `?`.
MainInitErr ==
    /\ status = "running"
    /\ i = 0
    /\ i < MaxLines
    /\ \E msg \in Message :
         /\ from_init(msg).tag = "Err"
         /\ line' = msg
    /\ status' = "error"
    /\ i' = i + 1
    /\ UNCHANGED <<node, out, nout, sum_deltas, broadcasted>>

\* Variant of MainProcess that treats an Error reply as a failure of the run.
MainProcess_stop_on_error ==
    /\ status = "running"
    /\ i > 0
    /\ i < MaxLines
    /\ \E msg \in Message : \E uuid \in UuidDraws(node, msg) :
         LET r == process(node, msg, uuid) IN
         /\ r.tag = "Ok"
         /\ line' = msg
         /\ node' = r.node
         /\ Println(r.resp)
         /\ status' = IF TypeOf(r.resp) = "error" THEN "error" ELSE status
         /\ sum_deltas' = IF Accepted(node, msg, "add")
                          THEN sum_deltas + msg.body.payload.delta
                          ELSE sum_deltas
         /\ broadcasted' = IF Accepted(node, msg, "broadcast")
                           THEN Append(broadcasted, msg.body.payload.message)
                           ELSE broadcasted
    /\ i' = i + 1

\* Variant of MainProcess that prints nothing when the reply is an Error.
MainProcess_skip_error_print ==
    /\ status = "running"
    /\ i > 0
    /\ i < MaxLines
    /\ \E msg \in Message : \E uuid \in UuidDraws(node, msg) :
         LET r == process(node, msg, uuid) IN
         /\ r.tag = "Ok"
         /\ line' = msg
         /\ node' = r.node
         /\ IF TypeOf(r.resp) = "error"
            THEN UNCHANGED <<out, nout>>
            ELSE Println(r.resp)
         /\ sum_deltas' = IF Accepted(node, msg, "add")
                          THEN sum_deltas + msg.body.payload.delta
                          ELSE sum_deltas
         /\ broadcasted' = IF Accepted(node, msg, "broadcast")
                           THEN Append(broadcasted, msg.body.payload.message)
                           ELSE broadcasted
    /\ i' = i + 1
    /\ UNCHANGED status

\* A later line, decoded, handled by Node::process which returns Ok.
MainProcess ==
    /\ status = "running"
    /\ i > 0
    /\ i < MaxLines
    /\ \E msg \in Message : \E uuid \in UuidDraws(node, msg) :
         LET r == process(node, msg, uuid) IN
         /\ r.tag = "Ok"
         /\ line' = msg
         /\ node' = r.node
         /\ Println(r.resp)
         /\ sum_deltas' = IF Accepted(node, msg, "add")
                          THEN sum_deltas + msg.body.payload.delta
                          ELSE sum_deltas
         /\ broadcasted' = IF Accepted(node, msg, "broadcast")
                           THEN Append(broadcasted, msg.body.payload.message)
                           ELSE broadcasted
    /\ i' = i + 1
    /\ UNCHANGED status

\* A later line, decoded, on which Node::process panics.
MainPanic ==
    /\ status = "running"
    /\ i > 0
    /\ i < MaxLines
    /\ \E msg \in Message : \E uuid \in UuidDraws(node, msg) :
         /\ process(node, msg, uuid).tag = "Panic"
         /\ line' = msg
    /\ status' = "panicked"
    /\ i' = i + 1
    /\ UNCHANGED <<node, out, nout, sum_deltas, broadcasted>>

\* A line that fails to read or to decode: main returns the error.
MainDecodeErr ==
    /\ status = "running"
    /\ i < MaxLines
    /\ status' = "error"
    /\ UNCHANGED <<node, i, line, out, nout, sum_deltas, broadcasted>>

\* End of input: the loop ends and main returns Ok(()).
MainEof ==
    /\ status = "running"
    /\ status' = "exited"
    /\ UNCHANGED <<node, i, line, out, nout, sum_deltas, broadcasted>>

Next ==
    \/ MainInit
    \/ MainInitErr
    \/ MainProcess
    \/ MainPanic
    \/ MainDecodeErr
    \/ MainEof

Spec == Init /\ [][Next]_vars

\* ------------------------------------------------------------ type check
TypeOK ==
    /\ node.id \in NodeNames
    /\ node.node_ids \subseteq NodeNames
    /\ node.messages \subseteq 0..MaxBroadcast
    /\ node.g_counter \in 0..(UsizeModulus - 1)
    /\ i \in 0..MaxLines
    /\ nout \in 0..MaxLines
    /\ status \in {"running", "exited", "error", "panicked"}


\* ----------------------------------------------------------------- claims
\* A step in which a line after the first was decoded and given to process.
Dispatched == i > 0 /\ i' = i + 1

\* C1: after initialization, a message whose dest differs from the node's id
\* is answered with Error 1001 whatever its payload, and the node's id, peer
\* set, broadcast set and counter are unchanged.
C1_DestMismatchFrame ==
    [][(Dispatched /\ line'.dst # node.id) =>
         /\ status' = "running"
         /\ nout' = nout + 1
         /\ TypeOf(out') = "error"
         /\ out'.body.payload.code = 1001
         /\ node'.id = node.id
         /\ node'.node_ids = node.node_ids
         /\ node'.messages = node.messages
         /\ node'.g_counter = node.g_counter]_vars

C1_Witness ==
    /\ status = "running"
    /\ i > 1
    /\ line.dst # node.id
    /\ TypeOf(line) = "add"
    /\ line.body.payload.delta > 0
    /\ TypeOf(out) = "error"
    /\ out.body.payload.code = 1001

\* C2: a Read addressed to the node replies ReadOk with exactly the sum of
\* the deltas of the Adds addressed to the node before it (0 before any Add).
C2_ReadIsExactSum ==
    (status = "running" /\ i > 1 /\ Accepted(node, line, "read")) =>
        /\ TypeOf(out) = "read_ok"
        /\ out.body.payload.value = sum_deltas

\* C3: an Init addressed to the node after initialization is answered with
\* Error 1002 and leaves id, peer set, counter and broadcast set as they
\* were; only the first line of a run is answered with InitOk.
C3_ReInitRejected ==
    [][/\ (Dispatched /\ Accepted(node, line', "init")) =>
            /\ status' = "running"
            /\ nout' = nout + 1
            /\ TypeOf(out') = "error"
            /\ out'.body.payload.code = 1002
            /\ node'.id = node.id
            /\ node'.node_ids = node.node_ids
            /\ node'.messages = node.messages
            /\ node'.g_counter = node.g_counter
       /\ (i > 0 /\ nout' # nout) => TypeOf(out') # "init_ok"]_vars

C3_Witness ==
    /\ status = "running"
    /\ i > 1
    /\ Accepted(node, line, "init")
    /\ line.body.payload.node_id # node.id
    /\ collect(line.body.payload.node_ids) # node.node_ids
    /\ TypeOf(out) = "error"
    /\ out.body.payload.code = 1002

\* C4: initialization from Init{node_id, node_ids} sets id to node_id, the
\* peer set to the distinct elements of node_ids, the broadcast set to empty
\* and the counter to 0.
C4_InitState ==
    (status = "running" /\ i = 1) =>
        /\ TypeOf(line) = "init"
        /\ node.id = line.body.payload.node_id
        /\ \A n \in NodeNames :
             n \in node.node_ids <=>
                \E k \in 1..Len(line.body.payload.node_ids) :
                    line.body.payload.node_ids[k] = n
        /\ node.node_ids \subseteq NodeNames
        /\ node.messages = {}
        /\ node.g_counter = 0

C4_Witness ==
    /\ status = "running"
    /\ i = 1
    /\ line.body.payload.node_ids = <<"n1", "n1">>
    /\ line.dst # line.body.payload.node_id
    /\ node.node_ids = {"n1"}

\* C5: the reply to the initial Init is an InitOk from the node's new id to
\* the Init's src, in_reply_to the Init's msg_id, with no msg_id of its own.
C5_InitOkReply ==
    (status = "running" /\ i = 1) =>
        /\ TypeOf(out) = "init_ok"
        /\ out.src = node.id
        /\ out.dst = line.src
        /\ out.body.in_reply_to = line.body.id
        /\ out.body.id = None

\* C6: a correctly addressed Echo{echo: s} is answered with EchoOk{echo: s},
\* msg_id and in_reply_to both equal to the request's msg_id, and the node
\* is unchanged.
C6_EchoRoundTrip ==
    [][(Dispatched /\ Accepted(node, line', "echo")) =>
         /\ status' = "running"
         /\ nout' = nout + 1
         /\ out'.body.payload = [type |-> "echo_ok", echo |-> line'.body.payload.echo]
         /\ out'.body.id = line'.body.id
         /\ out'.body.in_reply_to = line'.body.id
         /\ node' = node]_vars

C6_Witness ==
    /\ status = "running"
    /\ i > 1
    /\ Accepted(node, line, "echo")
    /\ line.body.payload.echo = "hi"
    /\ line.body.id # None
    /\ TypeOf(out) = "echo_ok"

\* C7: the broadcast set always equals the set of distinct values of the
\* Broadcasts addressed to the node; every such Broadcast is answered with
\* BroadcastOk, and one whose value is already in the set leaves the set's
\* contents and size unchanged.
C7_BroadcastIdempotent ==
    [][/\ \A v \in 0..MaxBroadcast :
            v \in node'.messages <=>
               \E k \in 1..Len(broadcasted') : broadcasted'[k] = v
       /\ node'.messages \subseteq 0..MaxBroadcast
       /\ (Dispatched /\ Accepted(node, line', "broadcast")) =>
            /\ status' = "running"
            /\ nout' = nout + 1
            /\ TypeOf(out') = "broadcast_ok"
            /\ line'.body.payload.message \in node'.messages
            /\ line'.body.payload.message \in node.messages =>
                 /\ node'.messages = node.messages
                 /\ Cardinality(node'.messages) = Cardinality(node.messages)]_vars

C7_Witness ==
    /\ status = "running"
    /\ Accepted(node, line, "broadcast")
    /\ Len(broadcasted) = 2
    /\ broadcasted[1] = broadcasted[2]
    /\ Cardinality(node.messages) = 1
    /\ TypeOf(out) = "broadcast_ok"

\* C8: every reply process produces has src equal to the node's id and dest
\* equal to the src of the message it answers.
C8_ReplyAddressing ==
    [][(Dispatched /\ nout' # nout) =>
         /\ out'.src = node.id
         /\ out'.src = node'.id
         /\ out'.dst = line'.src]_vars

C8_Witness ==
    /\ status = "running"
    /\ i > 1
    /\ TypeOf(out) = "error"
    /\ line.dst # node.id
    /\ line.src = "c2"
    /\ out.dst = "c2"
    /\ out.src = node.id

\* The Read and Add messages of the input alphabet.
ReadAddMessages == {m \in Message : TypeOf(m) \in {"read", "add"}}

\* C9: a correctly addressed Topology is answered with TopologyOk whatever
\* the mapping and leaves the node unchanged, so every Read or Add gets the
\* same result after it as before it.
C9_TopologyIgnored ==
    [][(Dispatched /\ Accepted(node, line', "topology")) =>
         /\ status' = "running"
         /\ nout' = nout + 1
         /\ TypeOf(out') = "topology_ok"
         /\ node'.id = node.id
         /\ node'.node_ids = node.node_ids
         /\ node'.messages = node.messages
         /\ node'.g_counter = node.g_counter
         /\ \A m \in ReadAddMessages :
              process(node', m, NoUuid) = process(node, m, NoUuid)]_vars

C9_Witness ==
    /\ status = "running"
    /\ i > 2
    /\ Accepted(node, line, "topology")
    /\ line.body.payload.topology # {}
    /\ {e[1] : e \in line.body.payload.topology} # node.node_ids
    /\ node.g_counter > 0
    /\ TypeOf(out) = "topology_ok"

\* C10: the loop prints exactly one reply for each line it processes
\* successfully and none otherwise, each reply answering the line just read
\* (so the k-th output answers the k-th input); the first line is answered
\* by initialization and later lines by process; at end of input the run
\* ends cleanly with nothing more printed.
C10_OneReplyPerLine ==
    [][/\ (status = "running") => nout = i
       /\ (status' = "running") => nout' = i'
       /\ (i' = i + 1 /\ status' = "running") =>
            /\ nout' = nout + 1
            /\ out'.dst = line'.src
            /\ out'.body.in_reply_to = line'.body.id
            /\ (i = 0) <=> (TypeOf(out') = "init_ok")
            /\ (i = 0) => TypeOf(line') = "init"
            /\ (i > 0) => TypeOf(out') # "init_ok"
       /\ (status' # "running") => nout' = nout /\ out' = out /\ node' = node
       /\ (status' = "exited") => (status = "running" /\ i' = i /\ nout' = i)]_vars

C10_Witness ==
    /\ status = "exited"
    /\ i = 3
    /\ nout = 3
    /\ TypeOf(line) = "read"
    /\ TypeOf(out) = "read_ok"


\* The tags of the reply variants of Payload, for which process has no arm.
ReplyTypes == {"echo_ok", "init_ok", "generate_ok", "broadcast_ok",
               "topology_ok", "read_ok", "add_ok", "error"}

\* C11: when the first line is not an Init the run fails without printing
\* anything and reads no further line; a line is given to process only
\* after the first line was an Init that initialized the node and was
\* answered.
C11_FirstLineMustBeInit ==
    [][/\ (i = 0 /\ i' = 1 /\ TypeOf(line') # "init") =>
            /\ status' = "error"
            /\ nout' = 0
            /\ out' = NoLine
            /\ node' = InitialNode
       /\ (i = 0 /\ i' = 1 /\ status' = "running") =>
            /\ TypeOf(line') = "init"
            /\ node'.id = line'.body.payload.node_id
            /\ TypeOf(out') = "init_ok"
       /\ (status = "error") => (i' = i /\ line' = line /\ nout' = nout /\ node' = node)
       /\ Dispatched => (status = "running" /\ nout >= 1)]_vars

C11_Witness ==
    /\ status = "error"
    /\ i = 1
    /\ TypeOf(line) = "echo"
    /\ nout = 0
    /\ node = InitialNode

\* C12: after initialization a correctly addressed message whose payload is
\* a reply variant stops the run: nothing is printed for it, the node is
\* not changed, and nothing is read or printed afterwards.
C12_ReplyVariantIsFatal ==
    [][/\ (Dispatched /\ line'.dst = node.id /\ TypeOf(line') \in ReplyTypes) =>
            /\ status' = "panicked"
            /\ nout' = nout
            /\ out' = out
            /\ node' = node
       /\ (status = "panicked") =>
            (i' = i /\ line' = line /\ nout' = nout /\ out' = out /\ node' = node
             /\ status' = "panicked")]_vars

C12_Witness ==
    /\ status = "panicked"
    /\ i > 1
    /\ line.dst = node.id
    /\ TypeOf(line) = "read_ok"
    /\ nout = i - 1


\* The request tags process answers normally, and the tag of each one's reply.
NormalTypes == {"echo", "generate", "broadcast", "read", "topology", "add"}
OkType(type) ==
    CASE type = "echo" -> "echo_ok"
      [] type = "generate" -> "generate_ok"
      [] type = "broadcast" -> "broadcast_ok"
      [] type = "read" -> "read_ok"
      [] type = "topology" -> "topology_ok"
      [] type = "add" -> "add_ok"

\* C13: an Error reply has code 1001 exactly when the dest differs from the
\* node's id and code 1002 exactly when a correctly addressed Init arrives
\* after initialization (both codes >= 1000) and is printed in no other
\* case; the run goes on after it with the node unchanged, and the next
\* correctly addressed request gets its normal reply.
C13_ErrorsAreRecoverable ==
    [][/\ (nout' # nout /\ TypeOf(out') = "error") =>
            /\ Dispatched
            /\ out'.body.payload.code \in {1001, 1002}
            /\ out'.body.payload.code >= 1000
            /\ (out'.body.payload.code = 1001) <=> (line'.dst # node.id)
            /\ (out'.body.payload.code = 1002) <=> Accepted(node, line', "init")
            /\ status' = "running"
            /\ node' = node
       /\ (Dispatched /\ (line'.dst # node.id \/ Accepted(node, line', "init"))) =>
            (nout' = nout + 1 /\ TypeOf(out') = "error")
       /\ (Dispatched /\ TypeOf(out) = "error" /\ line'.dst = node.id
             /\ TypeOf(line') \in NormalTypes) =>
            /\ status' = "running"
            /\ nout' = nout + 1
            /\ TypeOf(out') = OkType(TypeOf(line'))
            /\ (TypeOf(line') = "read") => out'.body.payload.value = node.g_counter]_vars

C13_Witness ==
    /\ status = "running"
    /\ i > 1
    /\ i < MaxLines
    /\ TypeOf(out) = "error"
    /\ out.body.payload.code = 1002
    /\ node.g_counter > 0

\* C14 (as stated): the destination-mismatch Error carries the text
\* "destination mismatch" and the re-initialization Error the text
\* "already initialized".
C14_TextsAsStated ==
    (status = "running" /\ TypeOf(out) = "error") =>
        /\ (out.body.payload.code = 1001) => out.body.payload.text = "destination mismatch"
        /\ (out.body.payload.code = 1002) => out.body.payload.text = "already initialized"

\* C14 (amended): the destination-mismatch Error carries the text
\* "Destination does not match this node_id" and the re-initialization Error
\* the text "Node already initialized".
C14_ErrorTexts ==
    (status = "running" /\ TypeOf(out) = "error") =>
        /\ (line.dst # node.id) =>
              out.body.payload.text = "Destination does not match this node_id"
        /\ Accepted(node, line, "init") =>
              out.body.payload.text = "Node already initialized"
        /\ (out.body.payload.code = 1001) =>
              out.body.payload.text = "Destination does not match this node_id"
        /\ (out.body.payload.code = 1002) =>
              out.body.payload.text = "Node already initialized"

C14_Witness ==
    /\ status = "running"
    /\ Accepted(node, line, "init")
    /\ TypeOf(out) = "error"
    /\ out.body.payload.text = "Node already initialized"


\* C15 (as stated), for two Generate messages in a row: the id of the second
\* GenerateOk differs from the id of the first, and Generate changes none of
\* id, peer set, broadcast set or counter.
C15_IdsDistinct ==
    [][(Dispatched /\ Accepted(node, line', "generate")) =>
         /\ node' = node
         /\ TypeOf(out') = "generate_ok"
         /\ (TypeOf(out) = "generate_ok") =>
               out'.body.payload.id # out.body.payload.id]_vars

\* C15 (amended): a correctly addressed Generate is answered with a
\* GenerateOk carrying the identifier that call of generate_uuid returned,
\* with the request's msg_id, and changes none of id, peer set, broadcast
\* set or counter; the node keeps no record of the identifiers it returned.
C15_GenerateFrame ==
    [][(Dispatched /\ Accepted(node, line', "generate")) =>
         /\ status' = "running"
         /\ nout' = nout + 1
         /\ TypeOf(out') = "generate_ok"
         /\ out'.body.payload.id \in generate_uuid
         /\ out'.body.id = line'.body.id
         /\ node'.id = node.id
         /\ node'.node_ids = node.node_ids
         /\ node'.messages = node.messages
         /\ node'.g_counter = node.g_counter]_vars

C15_Witness ==
    /\ status = "running"
    /\ i > 2
    /\ Accepted(node, line, "generate")
    /\ TypeOf(out) = "generate_ok"
    /\ out.body.payload.id = "u2"
    /\ node.g_counter > 0

\* C16: the counter never decreases from one step to the next.
C16_CounterMonotonic ==
    [][node'.g_counter >= node.g_counter]_vars


\* C17: the destination check comes before every check of the payload: an
\* Init after initialization with a dest other than the node's id gets
\* Error 1001, not 1002, and a reply variant with such a dest gets Error
\* 1001 and the run goes on.
C17_DestCheckFirst ==
    [][(Dispatched /\ line'.dst # node.id
          /\ TypeOf(line') \in {"init"} \cup ReplyTypes) =>
         /\ status' = "running"
         /\ status' # "panicked"
         /\ nout' = nout + 1
         /\ TypeOf(out') = "error"
         /\ out'.body.payload.code = 1001
         /\ out'.body.payload.code # 1002]_vars

C17_Witness ==
    /\ status = "running"
    /\ i > 1
    /\ line.dst # node.id
    /\ TypeOf(line) = "init"
    /\ line.body.payload.node_id = node.id
    /\ TypeOf(out) = "error"
    /\ out.body.payload.code = 1001

\* C18: every reply's in_reply_to is the msg_id of the line it answers; the
\* replies EchoOk, GenerateOk, BroadcastOk, ReadOk, TopologyOk and AddOk
\* carry that msg_id as their own, InitOk and Error replies carry none.
C18_Correlation ==
    [][(nout' # nout) =>
         /\ out'.body.in_reply_to = line'.body.id
         /\ (out'.body.in_reply_to = None) <=> (line'.body.id = None)
         /\ (TypeOf(out') \in {"echo_ok", "generate_ok", "broadcast_ok",
                               "read_ok", "topology_ok", "add_ok"}) =>
               out'.body.id = line'.body.id
         /\ (TypeOf(out') \in {"init_ok", "error"}) => out'.body.id = None]_vars

C18_Witness ==
    /\ status = "running"
    /\ i > 1
    /\ TypeOf(line) = "add"
    /\ line.body.id = Some(1)
    /\ TypeOf(out) = "add_ok"
    /\ out.body.id = Some(1)
    /\ out.body.in_reply_to = Some(1)

\* C19: after initialization id and peer set never change; the broadcast
\* set changes only by a correctly addressed Broadcast and only grows, the
\* counter changes only by a correctly addressed Add; Read, Echo, Generate
\* and Topology change nothing.
C19_Frame ==
    [][(i > 0) =>
         /\ node'.id = node.id
         /\ node'.node_ids = node.node_ids
         /\ node.messages \subseteq node'.messages
         /\ (node'.messages # node.messages) =>
               (Dispatched /\ Accepted(node, line', "broadcast"))
         /\ (node'.g_counter # node.g_counter) =>
               (Dispatched /\ Accepted(node, line', "add"))
         /\ (Dispatched /\ TypeOf(line') \in {"read", "echo", "generate", "topology"}) =>
               node' = node
         /\ (Dispatched /\ TypeOf(line') = "broadcast") =>
               node'.g_counter = node.g_counter
         /\ (Dispatched /\ TypeOf(line') = "add") =>
               node'.messages = node.messages]_vars

C19_Witness ==
    /\ status = "running"
    /\ i > 2
    /\ Accepted(node, line, "read")
    /\ out.body.payload.value > 0
    /\ node.g_counter = out.body.payload.value
    /\ node.messages # {}

====
